---- MODULE Spec2Model ----
(***************************************************************************)
(* A model of express-dynamodb: the operation facade of src/src/index.ts,  *)
(* the document adapter of dynamodb-doc.ts and the client factory of       *)
(* dynamodb-client.ts.                                                     *)
(*                                                                         *)
(* JavaScript values are records with a "type" field (typeof).  A plain    *)
(* object is the sequence of its own <<key, value>> entries in insertion   *)
(* order, which is the order Object.keys reports for non-integer keys.     *)
(* The template strings `#field${i}` and `:value${i}` are the pairs        *)
(* <<"#field", i>> and <<":value", i>>.                                    *)
(***************************************************************************)
EXTENDS Integers, Sequences, FiniteSets, TLC

\* ------------------------------------------------------------------ bounds
\* The largest number of own fields of an item handed to insertOrUpdate.
MaxFields == 3
\* The largest number of fields of a findOperated filter.
MaxFilter == 2
\* The largest number of items in one response of the store.
MaxItems == 2
\* The number of items in the table findAll scans.
TableSize == 4
\* The largest batch size a caller of findAll passes explicitly.
MaxBatch == 2

\* ------------------------------------------------------------ JavaScript
JsUndefined == [type |-> "undefined"]
JsNull == [type |-> "null"]
JsString(s) == [type |-> "string", s |-> s]
JsNumber(n) == [type |-> "number", n |-> n]
\* An object literal with no fields of its own, as a nested value.
JsObject == [type |-> "object", entries |-> <<>>]

TypeOf(v) == IF v.type = "null" THEN "object" ELSE v.type

\* ToBoolean of the values the code tests: undefined, null and "" are falsy.
Truthy(v) ==
    /\ v.type # "undefined"
    /\ v.type # "null"
    /\ ~(v.type = "string" /\ v.s = "")
    /\ ~(v.type = "number" /\ v.n = 0)

\* Object.keys(o)
ObjectKeys(o) == [i \in 1..Len(o) |-> o[i][1]]

HasOwn(o, k) == \E i \in 1..Len(o) : o[i][1] = k

\* What every plain object inherits from Object.prototype, of the names used.
ProtoGet(k) ==
    IF k = "constructor" THEN [type |-> "function", name |-> "Object"]
    ELSE JsUndefined

\* o[k] (also o?.[k] for an object o): the own property, else the inherited
\* one, else undefined.
Get(o, k) ==
    IF HasOwn(o, k)
    THEN LET i == CHOOSE j \in 1..Len(o) : o[j][1] = k IN o[i][2]
    ELSE ProtoGet(k)

\* o[k] = v: overwrite in place, or append a new own property.
SetProp(o, k, v) ==
    IF HasOwn(o, k)
    THEN [i \in 1..Len(o) |-> IF o[i][1] = k THEN <<k, v>> ELSE o[i]]
    ELSE Append(o, <<k, v>>)

\* Array.prototype.filter
RECURSIVE SeqFilterNotIn(_, _)
SeqFilterNotIn(s, excluded) ==
    IF s = <<>> THEN <<>>
    ELSE IF Head(s) \in excluded THEN SeqFilterNotIn(Tail(s), excluded)
    ELSE <<Head(s)>> \o SeqFilterNotIn(Tail(s), excluded)

\* ------------------------------------------------- @aws-sdk/util-dynamodb
\* convertToAttr: the typed attribute of one native value.
ConvertToAttr(v) ==
    CASE v.type = "string" -> [attr |-> "S", S |-> v.s]
      [] v.type = "number" -> [attr |-> "N", N |-> v.n]
      [] v.type = "null"   -> [attr |-> "NULL"]
      [] OTHER             -> [attr |-> "M", M |-> <<>>]

\* convertToNative
ConvertToNative(a) ==
    CASE a.attr = "S" -> JsString(a.S)
      [] a.attr = "N" -> JsNumber(a.N)
      [] a.attr = "NULL" -> JsNull
      [] OTHER -> JsObject

\* marshall(data, {removeUndefinedValues}): the entries of data converted,
\* an undefined one dropped under removeUndefinedValues; without the option an
\* undefined value makes marshall throw.
RECURSIVE MarshallEntries(_, _)
MarshallEntries(o, removeUndefinedValues) ==
    IF o = <<>> THEN <<>>
    ELSE IF Head(o)[2].type = "undefined" /\ removeUndefinedValues
         THEN MarshallEntries(Tail(o), removeUndefinedValues)
         ELSE << <<Head(o)[1], ConvertToAttr(Head(o)[2])>> >>
                \o MarshallEntries(Tail(o), removeUndefinedValues)

MarshallThrows(o, removeUndefinedValues) ==
    /\ ~removeUndefinedValues
    /\ \E i \in 1..Len(o) : o[i][2].type = "undefined"

Marshall(o, removeUndefinedValues) == MarshallEntries(o, removeUndefinedValues)

\* unmarshall(item)
Unmarshall(item) ==
    [i \in 1..Len(item) |-> <<item[i][1], ConvertToNative(item[i][2])>>]

Arr(items) == [type |-> "array", items |-> items]

\* The sequences of at most n members of S.
RECURSIVE SeqsUpTo(_, _)
SeqsUpTo(n, S) ==
    IF n = 0 THEN {<<>>}
    ELSE LET smaller == SeqsUpTo(n - 1, S)
         IN smaller \cup {Append(q, x) : q \in {y \in smaller : Len(y) = n - 1}, x \in S}

Obj(entries) == [type |-> "object", entries |-> entries]

\* -------------------------------------------------------------- the state
VARIABLES
    ddbClient,      \* dynamodb-client.ts: the module's current low-level client
    ddbDocClient,   \* dynamodb-doc.ts: the document client, the client it wraps
    call,           \* the facade call in progress or last finished
    status,         \* "idle" | "awaiting" | "returned" | "thrown"
    result,         \* the value returned, or the error thrown
    requests,       \* the requests the call has sent, oldest first
    responses,      \* history: what the store answered them with, oldest first
    params,         \* findAll: the generator's params object
    scanData,       \* findAll: data, the generator's last response
    batches,        \* findAll: the batches yielded so far, oldest first
    v1,             \* the client factory with stored credentials: its module state
    v2,             \* the client factory without stored credentials: its module state
    supplied        \* history: what the setters of v1 and of v2 were last given

facadeVars == <<call, status, result, requests, responses>>
genVars == <<params, scanData, batches>>
clientVars == <<ddbClient, ddbDocClient>>
factoryVars == <<v1, v2, supplied>>

\* process.env.REGION as the process started
EnvRegion == JsString("env-region")

\* new DynamoDBClient({ region, credentials })
NewClient(region, credentials) == [region |-> region, credentials |-> credentials]

\* const ddbDocClient = DynamoDBDocumentClient.from(ddbClient, translateConfig):
\* evaluated once, as the module loads, with the client of that moment.
DocumentClientFrom(client) == [client |-> client]

\* ddbDocClient.send(command): the request goes out through the wrapped
\* client, and the caller awaits the response.
Request(cmd, input) == [cmd |-> cmd, input |-> input, client |-> ddbDocClient.client]

\* The first (for all but findAll, the only) request of a call.
Send(cmd, input) ==
    /\ requests' = <<Request(cmd, input)>>
    /\ responses' = <<>>
    /\ status' = "awaiting"
    /\ result' = JsUndefined

\* An error thrown before the call has sent anything.
ThrowLocal(msg) ==
    /\ status' = "thrown"
    /\ result' = [type |-> "error", message |-> msg]
    /\ requests' = <<>>
    /\ responses' = <<>>

\* What the history holds for a request the store failed.
Rejected == [type |-> "rejected"]

\* The awaited send rejected and nothing catches it: the call fails with the
\* store's error.
Throw(msg) ==
    /\ status' = "thrown"
    /\ result' = [type |-> "error", message |-> msg]
    /\ responses' = Append(responses, Rejected)
    /\ UNCHANGED requests

\* The awaited send resolved with d, and the call returns v.
Return(d, v) ==
    /\ status' = "returned"
    /\ result' = v
    /\ responses' = Append(responses, d)
    /\ UNCHANGED requests

\* A call starts when the caller has no other call outstanding.
Begin(c) ==
    /\ status = "idle"
    /\ call' = c

\* The caller has taken the settled call's outcome and holds no call.
Settle ==
    /\ status \in {"returned", "thrown", "done"}
    /\ call' = [op |-> "none"]
    /\ status' = "idle"
    /\ result' = JsUndefined
    /\ requests' = <<>>
    /\ responses' = <<>>
    /\ params' = JsUndefined
    /\ scanData' = JsUndefined
    /\ batches' = <<>>
    /\ UNCHANGED <<clientVars, factoryVars>>

TableName == "tbl"

\* ----------------------------------------------------------- insertOrUpdate
FieldPh(index) == <<"#field", index>>
ValuePh(index) == <<":value", index>>

\* Object.keys(item).filter((k) => k !== pk && k !== sk)
ItemKeys(item, pk, sk) ==
    SeqFilterNotIn(ObjectKeys(item),
                   {pk} \cup (IF sk.type = "string" THEN {sk.s} ELSE {}))

\* A guard that rejects an item with nothing but key fields instead.
NoFieldsToUpdate(item, itemKeys) == Len(itemKeys) = 0

\* if (itemKeys.length === Object.keys(item).length) throw
NoKeyFound(item, itemKeys) == Len(itemKeys) = Len(ObjectKeys(item))

\* if (itemKeys.length > 0)
HasUpdate(itemKeys) == Len(itemKeys) > 0

\* `SET ${itemKeys.map((_k, index) => `#field${index} = :value${index}`).join(', ')}`
SetExpression(itemKeys) ==
    [type |-> "string", verb |-> "SET",
     terms |-> [i \in 1..Len(itemKeys) |->
                  [name |-> FieldPh(i - 1), op |-> "=", value |-> ValuePh(i - 1)]]]

\* keys.reduce((acc, k, index) => ({ ...acc, [`#field${index}`]: k }), {})
NamesOf(keys) == [i \in 1..Len(keys) |-> <<FieldPh(i - 1), keys[i]>>]

\* keys.reduce((acc, k, index) => ({ ...acc, [`:value${index}`]: o[k] }), {})
ValuesOf(keys, o) == [i \in 1..Len(keys) |-> <<ValuePh(i - 1), Get(o, keys[i])>>]

\* The UpdateItemCommandInput insertOrUpdate builds.
UpdateParams(pk, item, sk) ==
    LET itemKeys == ItemKeys(item, pk, sk)
        key0 == << <<pk, [attr |-> "S", S |-> Get(item, pk)]>> >>
        key == IF Truthy(sk)
               THEN SetProp(key0, sk.s, [attr |-> "S", S |-> Get(item, sk.s)])
               ELSE key0
    IN  [TableName |-> TableName,
         Key |-> key,
         ReturnValues |-> "ALL_NEW",
         UpdateExpression |->
             IF HasUpdate(itemKeys) THEN SetExpression(itemKeys) ELSE JsUndefined,
         ExpressionAttributeNames |->
             IF HasUpdate(itemKeys) THEN Obj(NamesOf(itemKeys)) ELSE JsUndefined,
         ExpressionAttributeValues |->
             IF HasUpdate(itemKeys)
             THEN Obj(Marshall(ValuesOf(itemKeys, item), TRUE))
             ELSE JsUndefined]

ItemFields == {"id", "ts", "name", "age"}
ItemValues == {JsString("a"), JsNumber(1), JsUndefined}

\* The objects with at most n own fields, in every insertion order.
RECURSIVE ObjectsUpTo(_, _, _)
ObjectsUpTo(n, fields, values) ==
    IF n = 0 THEN {<<>>}
    ELSE LET smaller == ObjectsUpTo(n - 1, fields, values)
             longest == {o \in smaller : Len(o) = n - 1}
         IN smaller \cup
            UNION {{Append(o, <<k, v>>) : k \in {f \in fields : ~HasOwn(o, f)},
                                          v \in values} : o \in longest}

InsertOrUpdate(pk, item, sk) ==
    /\ Begin([op |-> "insertOrUpdate", pk |-> pk, item |-> item, sk |-> sk])
    /\ IF NoKeyFound(item, ItemKeys(item, pk, sk))
       THEN /\ ThrowLocal("No partition key is found")
       ELSE /\ Send("UpdateItemCommand", UpdateParams(pk, item, sk))
    /\ UNCHANGED <<clientVars, genVars, factoryVars>>

\* return await ddbDocClient.send(...): the store's answer is the result.
InsertOrUpdateResume ==
    /\ status = "awaiting"
    /\ call.op = "insertOrUpdate"
    /\ Return(Obj(<<>>), Obj(<<>>))
    /\ UNCHANGED <<call, clientVars, genVars, factoryVars>>

\* The awaited send rejects (network, throttling, a malformed expression):
\* every operation but findAll lets the error through.
StoreRejects ==
    /\ status = "awaiting"
    /\ call.op # "findAll"
    /\ Throw("store error")
    /\ UNCHANGED <<call, clientVars, genVars, factoryVars>>

\* ---------------------------------------------------------------- the store
\* Items as the table holds them, in native form.
NativeItems ==
    { << <<"id", JsString("a")>> >>,
      << <<"id", JsString("b")>>, <<"age", JsNumber(1)>> >> }

\* What a QueryCommand of lib-dynamodb resolves with: the document client has
\* already decoded the items.  Items may be missing.
QueryOutputs ==
    {[type |-> "object", Items |-> JsUndefined]}
        \cup {[type |-> "object", Items |-> Arr(q)] : q \in SeqsUpTo(MaxItems, NativeItems)}

\* What a ScanCommand of client-dynamodb resolves with: typed attributes.
ScanOutputs ==
    {[type |-> "object", Items |-> JsUndefined]}
        \cup {[type |-> "object", Items |-> Arr(q)] :
                q \in SeqsUpTo(MaxItems, {Marshall(i, FALSE) : i \in NativeItems})}

\* data.Items.map((item) => unmarshall(item))
UnmarshallAll(items) == [i \in 1..Len(items) |-> Unmarshall(items[i])]

\* !data.Items || data.Items?.length < 1   (findMany: length === 0)
ItemsEmpty(data) == ~Truthy(data.Items) \/ Len(data.Items.items) < 1

\* --------------------------------------------------------------- deleteOne
DeleteOne(pk, pkValue) ==
    /\ Begin([op |-> "deleteOne", pk |-> pk, pkValue |-> pkValue])
    /\ Send("DeleteItemCommand",
            [TableName |-> TableName,
             Key |-> << <<pk, [attr |-> "S", S |-> pkValue]>> >>])
    /\ UNCHANGED <<clientVars, genVars, factoryVars>>

DeleteOneResume ==
    /\ status = "awaiting"
    /\ call.op = "deleteOne"
    /\ Return(Obj(<<>>), Obj(<<>>))
    /\ UNCHANGED <<call, clientVars, genVars, factoryVars>>

\* ------------------------------------------------------- findOne, findMany
\* { KeyConditionExpression: `${pk} = :u`, ExpressionAttributeValues: {":u": pkValue} }
KeyQueryParams(pk, pkValue) ==
    [TableName |-> TableName,
     KeyConditionExpression |-> [type |-> "string", lhs |-> pk, op |-> "=", rhs |-> ":u"],
     ExpressionAttributeValues |-> Obj(<< <<":u", pkValue>> >>)]

FindOne(pk, pkValue) ==
    /\ Begin([op |-> "findOne", pk |-> pk, pkValue |-> pkValue])
    /\ Send("QueryCommand", KeyQueryParams(pk, pkValue))
    /\ UNCHANGED <<clientVars, genVars, factoryVars>>

FindOneResult(data) ==
    IF ItemsEmpty(data) THEN JsNull ELSE Obj(data.Items.items[1])

FindOneResume(data) ==
    /\ status = "awaiting"
    /\ call.op = "findOne"
    /\ Return(data, FindOneResult(data))
    /\ UNCHANGED <<call, clientVars, genVars, factoryVars>>

FindMany(pk, pkValue) ==
    /\ Begin([op |-> "findMany", pk |-> pk, pkValue |-> pkValue])
    /\ Send("QueryCommand", KeyQueryParams(pk, pkValue))
    /\ UNCHANGED <<clientVars, genVars, factoryVars>>

\* findMany answering an empty result the way findOne does.
FindManyResultNull(data) ==
    IF ItemsEmpty(data) THEN JsNull ELSE data.Items

FindManyResult(data) ==
    IF ItemsEmpty(data) THEN Arr(<<>>) ELSE data.Items

FindManyResume(data) ==
    /\ status = "awaiting"
    /\ call.op = "findMany"
    /\ Return(data, FindManyResult(data))
    /\ UNCHANGED <<call, clientVars, genVars, factoryVars>>

\* ------------------------------------------ findManyByField, findManyPlain
\* The scans decode what the store returns.
ScanResult(data) ==
    IF ItemsEmpty(data) THEN Arr(<<>>) ELSE Arr(UnmarshallAll(data.Items.items))

FindManyByField(field, value) ==
    /\ Begin([op |-> "findManyByField", field |-> field, value |-> value])
    /\ Send("ScanCommand",
            [TableName |-> TableName,
             FilterExpression |->
                 [type |-> "string", lhs |-> field, op |-> "=", rhs |-> ":u"],
             ExpressionAttributeValues |->
                 Obj(<< <<":u", [attr |-> "S", S |-> value]>> >>)])
    /\ UNCHANGED <<clientVars, genVars, factoryVars>>

FindManyByFieldResume(data) ==
    /\ status = "awaiting"
    /\ call.op = "findManyByField"
    /\ Return(data, ScanResult(data))
    /\ UNCHANGED <<call, clientVars, genVars, factoryVars>>

FindManyPlain(filterExpression, expressionAttributeValues) ==
    /\ Begin([op |-> "findManyPlain", filterExpression |-> filterExpression,
              expressionAttributeValues |-> expressionAttributeValues])
    /\ Send("ScanCommand",
            [TableName |-> TableName,
             FilterExpression |-> filterExpression,
             ExpressionAttributeValues |-> expressionAttributeValues])
    /\ UNCHANGED <<clientVars, genVars, factoryVars>>

FindManyPlainResume(data) ==
    /\ status = "awaiting"
    /\ call.op = "findManyPlain"
    /\ Return(data, ScanResult(data))
    /\ UNCHANGED <<call, clientVars, genVars, factoryVars>>

\* ------------------------------------------------------------ findOperated
\* The checks of the loop over filterKeys, for one key.
OperatorMissing(operators, k) == ~Truthy(Get(operators, k))

NotScalar(filter, k) ==
    TypeOf(Get(filter, k)) # "string" /\ TypeOf(Get(filter, k)) # "number"

KeyRejected(filter, operators, k) ==
    OperatorMissing(operators, k) \/ NotScalar(filter, k)

\* The error of the first key, in Object.keys order, that fails a check.
FilterError(filter, operators) ==
    LET filterKeys == ObjectKeys(filter)
        bad == {i \in 1..Len(filterKeys) : KeyRejected(filter, operators, filterKeys[i])}
        first == CHOOSE i \in bad : \A j \in bad : i <= j
    IN  IF bad = {} THEN JsUndefined
        ELSE IF OperatorMissing(operators, filterKeys[first])
        THEN [type |-> "error", message |-> "Operator not found", key |-> filterKeys[first]]
        ELSE [type |-> "error", message |-> "Value is not a string or number",
              key |-> filterKeys[first]]

\* `${filterKeys.map((k, index) => `#field${index} ${operators[k]} :value${index}`).join(' and ')}`
OperatedExpression(filterKeys, operators) ==
    [type |-> "string", verb |-> "and",
     terms |-> [i \in 1..Len(filterKeys) |->
                  [name |-> FieldPh(i - 1), op |-> Get(operators, filterKeys[i]),
                   value |-> ValuePh(i - 1)]]]

OperatedParams(filter, operators) ==
    LET filterKeys == ObjectKeys(filter)
    IN  [TableName |-> TableName,
         FilterExpression |-> OperatedExpression(filterKeys, operators),
         ExpressionAttributeNames |-> Obj(NamesOf(filterKeys)),
         ExpressionAttributeValues |-> Obj(Marshall(ValuesOf(filterKeys, filter), FALSE))]

FilterFields == {"age", "name", "constructor"}
FilterValues == {JsString("a"), JsNumber(1), JsObject, JsUndefined}
\* The operator maps: one operator or none for each of "age" and "name".
OperatorMaps ==
    LET choice == {JsUndefined, JsString("<"), JsString(">=")}
        entry(k, v) == IF v = JsUndefined THEN <<>> ELSE << <<k, v>> >>
    IN  {entry("age", a) \o entry("name", n) : a \in choice, n \in choice}

FindOperated(filter, operators) ==
    /\ Begin([op |-> "findOperated", filter |-> filter, operators |-> operators])
    /\ IF FilterError(filter, operators) # JsUndefined
       THEN /\ status' = "thrown"
            /\ result' = FilterError(filter, operators)
            /\ requests' = <<>>
            /\ responses' = <<>>
       ELSE IF MarshallThrows(ValuesOf(ObjectKeys(filter), filter), FALSE)
       THEN ThrowLocal("Pass options.removeUndefinedValues=true")
       ELSE Send("ScanCommand", OperatedParams(filter, operators))
    /\ UNCHANGED <<clientVars, genVars, factoryVars>>

\* !data || !data.Items || data.Items?.length < 1
DataEmpty(data) == ~Truthy(data) \/ ItemsEmpty(data)

GuardedScanResult(data) ==
    IF DataEmpty(data) THEN Arr(<<>>) ELSE Arr(UnmarshallAll(data.Items.items))

FindOperatedResume(data) ==
    /\ status = "awaiting"
    /\ call.op = "findOperated"
    /\ Return(data, GuardedScanResult(data))
    /\ UNCHANGED <<call, clientVars, genVars, factoryVars>>

\* -------------------------------------------------------------- findWithin
FindWithin(key, start, end) ==
    /\ Begin([op |-> "findWithin", key |-> key, start |-> start, end |-> end])
    /\ Send("ScanCommand",
            [TableName |-> TableName,
             FilterExpression |->
                 [type |-> "string", lhs |-> key, op |-> "BETWEEN",
                  rhs |-> <<":start", ":end">>],
             ExpressionAttributeValues |->
                 Obj(<< <<":start", [attr |-> "N", N |-> start]>>,
                        <<":end", [attr |-> "N", N |-> end]>> >>)])
    /\ UNCHANGED <<clientVars, genVars, factoryVars>>

FindWithinResume(data) ==
    /\ status = "awaiting"
    /\ call.op = "findWithin"
    /\ Return(data, GuardedScanResult(data))
    /\ UNCHANGED <<call, clientVars, genVars, factoryVars>>

\* ----------------------------------------------------------------- findAll
\* async function* findAll(tableName, limit = 10)
DefaultLimit == 10

\* The table a full scan walks: positions 1..TableSize, the item at each.
TableItem(pos) ==
    IF pos % 2 = 1 THEN << <<"id", [attr |-> "S", S |-> "a"]>> >>
    ELSE << <<"id", [attr |-> "S", S |-> "b"]>>, <<"age", [attr |-> "N", N |-> 1]>> >>

\* A continuation token: the key of the last item the page evaluated.
KeyAt(pos) == [type |-> "object", pos |-> pos]

\* The pages the store may answer a scan request with: at most Limit items
\* from where the start key points, a LastEvaluatedKey while items remain
\* (and possibly on a full last page), Items possibly missing when empty.
ScanPages(input) ==
    LET start == IF Truthy(input.ExclusiveStartKey) THEN input.ExclusiveStartKey.pos ELSE 0
        left == TableSize - start
        most == IF input.Limit < left THEN input.Limit ELSE left
        counts == IF left = 0 THEN {0} ELSE 1..most
        page(n) == [i \in 1..n |-> TableItem(start + i)]
    IN  UNION {
          {[type |-> "object", Items |-> items, LastEvaluatedKey |-> lek] :
              items \in {Arr(page(n))} \cup (IF n = 0 THEN {JsUndefined} ELSE {}),
              lek \in (IF start + n < TableSize THEN {KeyAt(start + n)} ELSE {JsUndefined})
                        \cup (IF n = input.Limit THEN {KeyAt(start + n)} ELSE {})}
          : n \in counts}

\* Calling findAll only creates the generator: nothing of the body has run.
FindAll(limit) ==
    /\ Begin([op |-> "findAll",
              limit |-> IF limit = JsUndefined THEN DefaultLimit ELSE limit.n])
    /\ status' = "created"
    /\ result' = JsUndefined
    /\ requests' = <<>>
    /\ responses' = <<>>
    /\ responses' = <<>>
    /\ params' = JsUndefined
    /\ scanData' = JsUndefined
    /\ batches' = <<>>
    /\ UNCHANGED <<clientVars, factoryVars>>

\* await ddbDocClient.send(new ScanCommand(params)) inside the loop
SendPage(p) ==
    /\ params' = p
    /\ requests' = Append(requests, Request("ScanCommand", p))
    /\ status' = "awaiting"
    /\ UNCHANGED <<result, responses, scanData, batches>>

\* The generator returns (also from the catch block): the sequence is done.
Finish ==
    /\ status' = "done"
    /\ UNCHANGED <<result, requests, scanData, batches>>

\* The first next(): the body runs up to the first await.
FindAllStart ==
    /\ status = "created"
    /\ call.op = "findAll"
    /\ SendPage([TableName |-> TableName, Limit |-> call.limit,
                 ExclusiveStartKey |-> JsUndefined])
    /\ UNCHANGED <<call, clientVars, factoryVars>>

\* The response arrives: the batch is yielded, and the generator is suspended
\* at the yield.
FindAllYield ==
    /\ status = "awaiting"
    /\ call.op = "findAll"
    /\ \E d \in ScanPages(params) \cup {JsNull} :
          /\ scanData' = d
          /\ responses' = Append(responses, d)
          /\ batches' = Append(batches, GuardedScanResult(d))
    /\ status' = "yielded"
    /\ UNCHANGED <<call, result, requests, params, clientVars, factoryVars>>

\* A loop that tests the response's key but never moves the start key.
FindAllNextStale ==
    /\ status = "yielded"
    /\ call.op = "findAll"
    /\ IF scanData.type = "null"
       THEN Finish /\ UNCHANGED <<params, responses>>
       ELSE IF Truthy(scanData.LastEvaluatedKey)
            THEN SendPage(params)
            ELSE Finish /\ UNCHANGED <<params, responses>>
    /\ UNCHANGED <<call, clientVars, factoryVars>>

\* A next() after a yield: params.ExclusiveStartKey = data.LastEvaluatedKey,
\* then the loop test.  A null data makes the assignment throw into the catch.
FindAllNext ==
    /\ status = "yielded"
    /\ call.op = "findAll"
    /\ IF scanData.type = "null"
       THEN Finish /\ UNCHANGED <<params, responses>>
       ELSE LET p == [params EXCEPT !.ExclusiveStartKey = scanData.LastEvaluatedKey]
            IN  IF Truthy(p.ExclusiveStartKey)
                THEN SendPage(p)
                ELSE Finish /\ params' = p /\ UNCHANGED responses
    /\ UNCHANGED <<call, clientVars, factoryVars>>

\* A generator without the catch: the rejection reaches the consumer.
FindAllRethrow ==
    /\ status = "awaiting"
    /\ call.op = "findAll"
    /\ Throw("store error")
    /\ UNCHANGED <<call, params, scanData, batches, clientVars, factoryVars>>

\* The awaited send rejects: catch (e) { console.log(e) }, and the generator
\* returns normally.
FindAllCatch ==
    /\ status = "awaiting"
    /\ call.op = "findAll"
    /\ Finish
    /\ responses' = Append(responses, Rejected)
    /\ UNCHANGED <<call, params, clientVars, factoryVars>>

\* ------------------------------------------------------- the client factory
Regions == {JsString("us-east-1"), JsString("eu-west-1")}

\* process.env.AWS_ACCESS_KEY_ID and process.env.AWS_SECRET_ACCESS_KEY
EnvAccessKey == [accessKeyId |-> "env-id", secretAccessKey |-> "env-secret"]
AccessKeys ==
    {[accessKeyId |-> "id-1", secretAccessKey |-> "secret-1"],
     [accessKeyId |-> "id-2", secretAccessKey |-> "secret-2"]}

\* The history of one factory after a setter was given these (undefined: the
\* setter was not given one).
Supply(h, region, accessKey) ==
    [region |-> IF region = JsUndefined THEN h.region ELSE region,
     credentials |-> IF accessKey = JsUndefined THEN h.credentials ELSE accessKey]

\* dynamodb-client.ts: setRegion replaces the module's client.
SetRegion(region) ==
    /\ ddbClient' = NewClient(region, JsUndefined)
    /\ UNCHANGED <<ddbDocClient, facadeVars, genVars, factoryVars>>

\* The factory that keeps the credentials in module variables.
V1SetRegion(region) ==
    /\ v1' = [v1 EXCEPT
                !.DynamoDB_REGION = region,
                !.ddbClient = NewClient(region,
                    [accessKeyId |-> v1.AWS_ACCESS_KEY_ID,
                     secretAccessKey |-> v1.AWS_SECRET_ACCESS_KEY])]
    /\ supplied' = [supplied EXCEPT !.v1 = Supply(@, region, JsUndefined)]
    /\ UNCHANGED <<v2, clientVars, facadeVars, genVars>>

V1SetAccessKey(accessKey) ==
    /\ v1' = [v1 EXCEPT
                !.AWS_ACCESS_KEY_ID = accessKey.accessKeyId,
                !.AWS_SECRET_ACCESS_KEY = accessKey.secretAccessKey,
                !.ddbClient = NewClient(v1.DynamoDB_REGION,
                    [accessKeyId |-> accessKey.accessKeyId,
                     secretAccessKey |-> accessKey.secretAccessKey])]
    /\ supplied' = [supplied EXCEPT !.v1 = Supply(@, JsUndefined, accessKey)]
    /\ UNCHANGED <<v2, clientVars, facadeVars, genVars>>

\* region ?? DynamoDB_REGION
OrElse(a, b) == IF a.type = "undefined" \/ a.type = "null" THEN b ELSE a

V1SetConfig(accessKey, region) ==
    /\ v1' = [v1 EXCEPT
                !.DynamoDB_REGION = OrElse(region, v1.DynamoDB_REGION),
                !.ddbClient = NewClient(OrElse(region, v1.DynamoDB_REGION), accessKey)]
    /\ supplied' = [supplied EXCEPT !.v1 = Supply(@, region, accessKey)]
    /\ UNCHANGED <<v2, clientVars, facadeVars, genVars>>

\* The factory that keeps only the region.
V2SetRegion(region) ==
    /\ v2' = [v2 EXCEPT
                !.DynamoDB_REGION = region,
                !.ddbClient = NewClient(region, JsUndefined)]
    /\ supplied' = [supplied EXCEPT !.v2 = Supply(@, region, JsUndefined)]
    /\ UNCHANGED <<v1, clientVars, facadeVars, genVars>>

V2SetAccessKey(accessKey) ==
    /\ v2' = [v2 EXCEPT !.ddbClient = NewClient(v2.DynamoDB_REGION, accessKey)]
    /\ supplied' = [supplied EXCEPT !.v2 = Supply(@, JsUndefined, accessKey)]
    /\ UNCHANGED <<v1, clientVars, facadeVars, genVars>>

V2SetConfig(accessKey, region) ==
    /\ v2' = [v2 EXCEPT
                !.DynamoDB_REGION = OrElse(region, v2.DynamoDB_REGION),
                !.ddbClient = NewClient(OrElse(region, v2.DynamoDB_REGION), accessKey)]
    /\ supplied' = [supplied EXCEPT !.v2 = Supply(@, region, accessKey)]
    /\ UNCHANGED <<v1, clientVars, facadeVars, genVars>>

\* ------------------------------------------------------- the specifications
vars == <<clientVars, facadeVars, genVars, factoryVars>>

Init ==
    /\ ddbClient = NewClient(EnvRegion, JsUndefined)
    /\ ddbDocClient = DocumentClientFrom(NewClient(EnvRegion, JsUndefined))
    /\ call = [op |-> "none"]
    /\ status = "idle"
    /\ result = JsUndefined
    /\ requests = <<>>
    /\ responses = <<>>
    /\ params = JsUndefined
    /\ scanData = JsUndefined
    /\ batches = <<>>
    /\ v1 = [DynamoDB_REGION |-> EnvRegion,
             AWS_ACCESS_KEY_ID |-> EnvAccessKey.accessKeyId,
             AWS_SECRET_ACCESS_KEY |-> EnvAccessKey.secretAccessKey,
             ddbClient |-> NewClient(EnvRegion, JsUndefined)]
    /\ v2 = [DynamoDB_REGION |-> EnvRegion,
             ddbClient |-> NewClient(EnvRegion, JsUndefined)]
    /\ supplied = [v1 |-> [region |-> JsUndefined, credentials |-> JsUndefined],
                   v2 |-> [region |-> JsUndefined, credentials |-> JsUndefined]]

KeyValues == {JsString("a"), JsString("b")}

\* The caller starts one of the facade's operations (the guard of Begin is
\* repeated ahead of each choice of arguments).
Call ==
    \/ /\ status = "idle"
       /\ \E item \in ObjectsUpTo(MaxFields, ItemFields, ItemValues),
             sk \in {JsUndefined, JsString("ts")} : InsertOrUpdate("id", item, sk)
    \/ \E v \in KeyValues : DeleteOne("id", v)
    \/ \E v \in KeyValues : FindOne("id", v)
    \/ \E v \in KeyValues : FindMany("id", v)
    \/ \E v \in KeyValues : FindManyByField("name", v)
    \/ FindManyPlain([type |-> "string", lhs |-> "age", op |-> ">", rhs |-> ":min"],
                     Obj(<< <<":min", [attr |-> "N", N |-> 1]>> >>))
    \/ /\ status = "idle"
       /\ \E filter \in ObjectsUpTo(MaxFilter, FilterFields, FilterValues),
             operators \in OperatorMaps : FindOperated(filter, operators)
    \/ \E start \in {1, 2}, end \in {2} : FindWithin("age", start, end)

\* The store answers the request in flight, or fails it.
Resume ==
    \/ InsertOrUpdateResume
    \/ DeleteOneResume
    \/ \E d \in QueryOutputs : FindOneResume(d)
    \/ \E d \in QueryOutputs : FindManyResume(d)
    \/ \E d \in ScanOutputs : FindManyByFieldResume(d)
    \/ \E d \in ScanOutputs : FindManyPlainResume(d)
    \/ \E d \in ScanOutputs \cup {JsNull} : FindOperatedResume(d)
    \/ \E d \in ScanOutputs \cup {JsNull} : FindWithinResume(d)
    \/ StoreRejects

\* The facade, with the region changed between and during calls.
Next ==
    \/ \E r \in Regions : SetRegion(r)
    \/ Call
    \/ Resume
    \/ Settle

Spec == Init /\ [][Next]_vars

\* One consumer iterating findAll, one call after the other.
NextFindAll ==
    \/ \E limit \in {JsUndefined} \cup {JsNumber(n) : n \in 1..MaxBatch} : FindAll(limit)
    \/ FindAllStart
    \/ FindAllYield
    \/ FindAllNext
    \/ FindAllCatch
    \/ Settle

SpecFindAll == Init /\ [][NextFindAll]_vars

\* The setters of the two client factories, in any order.
NextConfig ==
    \/ \E r \in Regions : V1SetRegion(r)
    \/ \E k \in AccessKeys : V1SetAccessKey(k)
    \/ \E k \in AccessKeys, r \in Regions \cup {JsUndefined} : V1SetConfig(k, r)
    \/ \E r \in Regions : V2SetRegion(r)
    \/ \E k \in AccessKeys : V2SetAccessKey(k)
    \/ \E k \in AccessKeys, r \in Regions \cup {JsUndefined} : V2SetConfig(k, r)

SpecConfig == Init /\ [][NextConfig]_vars

\* ================================================================ the claims
\* The own keys of an object, and the value under an own key.
KeySet(o) == {o[i][1] : i \in 1..Len(o)}
ValueAt(o, k) == o[CHOOSE i \in 1..Len(o) : o[i][1] = k][2]

Upserting == call.op = "insertOrUpdate"
\* The names insertOrUpdate was told are the key fields.
KeyNames == {call.pk} \cup (IF call.sk.type = "string" THEN {call.sk.s} ELSE {})
NonKeyFields == KeySet(call.item) \ KeyNames
OnlyKeyFields == Upserting /\ call.pk \in KeySet(call.item) /\ NonKeyFields = {}
LocalError(msg) == status = "thrown" /\ requests = <<>> /\ result.message = msg
\* The call got as far as one request, and fails only if the store failed it.
SentOne(cmd) ==
    /\ Len(requests) = 1
    /\ requests[1].cmd = cmd
    /\ status \in {"awaiting", "returned", "thrown"}
    /\ status = "thrown" => responses = <<Rejected>>

C2_UpdateAssignsNonKeyFields ==
    (Upserting /\ call.pk \in KeySet(call.item) /\ NonKeyFields # {}) =>
        /\ SentOne("UpdateItemCommand")
        /\ LET in == requests[1].input
               terms == in.UpdateExpression.terms
               names == in.ExpressionAttributeNames.entries
               values == in.ExpressionAttributeValues.entries
               assigns(i, k) ==
                   /\ terms[i].name \in KeySet(names)
                   /\ ValueAt(names, terms[i].name) = k
           IN  /\ in.UpdateExpression # JsUndefined
               /\ in.UpdateExpression.verb = "SET"
               /\ \A k \in NonKeyFields :
                     /\ Cardinality({i \in 1..Len(terms) : assigns(i, k)}) = 1
                     /\ \A i \in 1..Len(terms) : assigns(i, k) =>
                           /\ terms[i].value \in KeySet(values)
                           /\ ConvertToNative(ValueAt(values, terms[i].value))
                                 = ValueAt(call.item, k)
               /\ \A i \in 1..Len(terms) : \E k \in NonKeyFields : assigns(i, k)
               /\ KeySet(in.Key) = KeyNames
               /\ \A k \in KeyNames :
                     ValueAt(in.Key, k).S =
                         (IF k \in KeySet(call.item) THEN ValueAt(call.item, k)
                          ELSE JsUndefined)

\* C9: in every request insertOrUpdate or findOperated sends, the
\* placeholders the expression references are exactly the keys of
\* ExpressionAttributeNames and of ExpressionAttributeValues.
ExpressionOf(r) ==
    IF r.cmd = "UpdateItemCommand" THEN r.input.UpdateExpression
    ELSE r.input.FilterExpression

C9_PlaceholdersAgree ==
    \A i \in 1..Len(requests) :
        LET r == requests[i]
            e == ExpressionOf(r)
        IN  (call.op \in {"insertOrUpdate", "findOperated"} /\ e # JsUndefined) =>
                /\ {e.terms[j].name : j \in 1..Len(e.terms)}
                       = KeySet(r.input.ExpressionAttributeNames.entries)
                /\ {e.terms[j].value : j \in 1..Len(e.terms)}
                       = KeySet(r.input.ExpressionAttributeValues.entries)

\* C10: without the partition-key field in the item, insertOrUpdate fails
\* with 'No partition key is found' and sends nothing.
C10_MissingPartitionKeyRejected ==
    (Upserting /\ call.pk \notin KeySet(call.item)) =>
        LocalError("No partition key is found")

\* C3: with no items in the response findOne returns null and the list
\* operations return an empty list; with items, findOne returns the first
\* and the list operations return all of them, in order.
ListOps == {"findMany", "findManyByField", "findManyPlain", "findOperated", "findWithin"}
NoItems(d) ==
    \/ d.type = "null"
    \/ d.Items = JsUndefined
    \/ d.Items.items = <<>>
\* The native item a response's item stands for: itself after a query, the
\* item whose typed form it is after a scan.
SameItem(op, got, sent) ==
    IF op \in {"findOne", "findMany"} THEN got = sent
    ELSE \E n \in NativeItems :
            /\ Len(n) = Len(sent)
            /\ \A j \in 1..Len(n) :
                  /\ sent[j][1] = n[j][1]
                  /\ sent[j][2] = ConvertToAttr(n[j][2])
            /\ got = n

C4_BadFilterRejected ==
    (call.op = "findOperated" /\
       \E k \in KeySet(call.filter) :
          \/ k \notin KeySet(call.operators)
          \/ ValueAt(call.filter, k).type \notin {"string", "number"}) =>
        status = "thrown" /\ requests = <<>>

\* C7: every request is sent through a client configured with the region
\* most recently set when the request is issued.
C7_RequestUsesLatestRegion ==
    [][(requests' # requests /\ requests' # <<>>) =>
          requests'[Len(requests')].client.region = ddbClient.region]_vars

\* A response that names no further page.
NoToken(d) == d.type = "null" \/ d.LastEvaluatedKey = JsUndefined
ItemCount(d) == IF NoItems(d) THEN 0 ELSE Len(d.Items.items)
Pages == {i \in 1..Len(responses) : responses[i] # Rejected}

\* C5: the first request of a findAll iteration has no start key, each later
\* one carries the previous response's continuation token, each carries
\* Limit = batchSize, each response yields exactly one batch of its items (at
\* most batchSize, an empty list for an empty page), nothing is requested
\* after a response without a token, and the next step then ends the sequence.
C5_Pagination ==
    call.op = "findAll" =>
        /\ \A i \in 1..Len(requests) :
              /\ requests[i].cmd = "ScanCommand"
              /\ requests[i].input.Limit = call.limit
              /\ IF i = 1
                 THEN requests[i].input.ExclusiveStartKey = JsUndefined
                 ELSE /\ i - 1 \in Pages
                      /\ ~NoToken(responses[i - 1])
                      /\ requests[i].input.ExclusiveStartKey
                            = responses[i - 1].LastEvaluatedKey
        /\ Len(responses) \in {Len(requests), Len(requests) - 1}
        /\ status = "awaiting" <=> Len(responses) = Len(requests) - 1
        /\ DOMAIN batches = Pages
        /\ \A i \in Pages :
              /\ batches[i].type = "array"
              /\ Len(batches[i].items) = ItemCount(responses[i])
              /\ Len(batches[i].items) <= call.limit
        /\ \A i \in Pages : NoToken(responses[i]) => i = Len(requests)
        /\ (status = "yielded" /\ NoToken(responses[Len(responses)])) =>
              /\ ENABLED FindAllNext
              /\ ~ENABLED (FindAllNext /\ status' # "done")
        /\ status = "done" =>
              \/ responses[Len(responses)] = Rejected
              \/ NoToken(responses[Len(responses)])

C5_Witness ==
    /\ call.op = "findAll"
    /\ status = "done"
    /\ Len(requests) = 3
    /\ Pages = 1..3
    /\ Len(batches[1].items) = 2
    /\ batches[3] = Arr(<<>>)

\* C6: when the store fails a page request of a findAll iteration, the
\* sequence ends without an error reaching the consumer, that request is the
\* last, and the batches yielded before it stand as they were delivered.
C6_FailureEndsQuietly ==
    call.op = "findAll" =>
        /\ status # "thrown"
        /\ \A i \in 1..Len(responses) : responses[i] = Rejected =>
              /\ i = Len(responses)
              /\ i = Len(requests)
              /\ status = "done"
              /\ result = JsUndefined
              /\ Len(batches) = i - 1
              /\ \A j \in 1..(i - 1) :
                    /\ Len(batches[j].items) = ItemCount(responses[j])
                    /\ \A n \in 1..Len(batches[j].items) :
                          SameItem("findAll", batches[j].items[n],
                                   responses[j].Items.items[n])

C6_Witness ==
    /\ call.op = "findAll"
    /\ status = "done"
    /\ Len(responses) = 3
    /\ responses[3] = Rejected
    /\ Len(batches) = 2
    /\ Len(batches[2].items) = 1

\* C8: after any sequence of setter calls the current client of a factory has
\* the region and the credential pair its setters were most recently given.
LastWriteWins(factory, given) ==
    /\ given.region # JsUndefined => factory.ddbClient.region = given.region
    /\ given.credentials # JsUndefined =>
          factory.ddbClient.credentials = given.credentials

C8_LastWriteWins ==
    /\ LastWriteWins(v1, supplied.v1)
    /\ LastWriteWins(v2, supplied.v2)

====
